---- MODULE Spec2Model ----
(***************************************************************************)
(* A model of jsonrpc.py: the JSON-RPC 2.0 request/response model, its     *)
(* schema validator, its (de)serialization and its blocking and concurrent *)
(* resolvers.                                                              *)
(*                                                                         *)
(* Python values are tagged records [t |-> <type>, v |-> <payload>]; JSON  *)
(* documents (what json.dumps writes and json.loads reads) are tagged      *)
(* records [t |-> <token kind>, v |-> <payload>].  The module-level        *)
(* sentinel strings are compared with `is` in the source, so they are      *)
(* values of their own, distinct from every str that comes off the wire.   *)
(***************************************************************************)
EXTENDS Integers, Sequences, FiniteSets, TLC

VARIABLES
    pc,         \* where the exchange is: see Next
    origin,     \* what Init drew: "client", "wire", "peer" or "construct"
    sent,       \* the Request the client built (origin "client"), or NoValue
    bytes_,     \* the bytes in flight
    request,    \* the Request the server deserialized, or NoValue
    outcome,    \* what the last call returned or raised
    calls,      \* the capabilities invoked so far, in invocation order
    results,    \* a batch's member results before filtering, as far as it got
    kwargs,     \* the keyword arguments of a direct Response(...) call
    received,   \* the Response the client deserialized, or NoValue
    registry,   \* the method_lookup the server resolves against
    tasks,      \* concurrent resolver: one record per batch member task
    order       \* concurrent resolver: member indices in completion order

vars == <<pc, origin, sent, bytes_, request, outcome, calls, results, kwargs,
          received, registry, tasks, order>>

----------------------------------------------------------------------------
(* Python values *)

None_ == [t |-> "none"]
PyInt(n) == [t |-> "int", v |-> n]
PyFloat(s) == [t |-> "float", v |-> s]
PyStr(s) == [t |-> "str", v |-> s]
PyBool(b) == [t |-> "bool", v |-> b]
PyList(q) == [t |-> "list", v |-> q]
PyTuple(q) == [t |-> "tuple", v |-> q]
PyDict(f) == [t |-> "dict", v |-> f]

\* A value that is no Python value: a variable that holds nothing yet.
NoValue == [t |-> "unset"]

_MISSING == [t |-> "sentinel", v |-> "=-=MISSING=-="]
_PARSE_ERROR == [t |-> "sentinel", v |-> "=-=PARSE_ERROR=-="]
_INVALID_REQUEST == [t |-> "sentinel", v |-> "=-=INVALID_REQUEST=-="]
_BATCH == [t |-> "sentinel", v |-> "=-=BATCH=-="]

\* What a call ends with: a returned value or a raised exception.
Return(v) == [kind |-> "return", value |-> v]
Raise(type, args) == [kind |-> "raise", exc |-> [type |-> type, args |-> args]]
NoOutcome == [kind |-> "none"]

\* The exception classes of the module and the builtins the model raises,
\* each with its base classes (itself included).
Bases(type) ==
    CASE type \in {"ParseError", "InvalidRequestError", "MethodNotFoundError",
                   "InvalidParamsError", "InternalError", "ServerError"}
             -> {type, "JSONRPCError", "Exception"}
      [] type \in {"JSONDecodeError", "UnicodeDecodeError"}
             -> {type, "ValueError", "Exception"}
      [] OTHER -> {type, "Exception"}

\* isinstance(err, cls) for an exception
IsInstanceExc(exc, cls) == cls \in Bases(exc.type)

\* isinstance(value, type_) for a class or a union of classes; bool is a
\* subclass of int.
IsInstance(value, types) ==
    \/ value.t \in types
    \/ value.t = "bool" /\ "int" \in types

----------------------------------------------------------------------------
(* JSON documents and the json module *)

JNull == [t |-> "jnull"]
JInt(n) == [t |-> "jint", v |-> n]
JReal(s) == [t |-> "jreal", v |-> s]
JStr(s) == [t |-> "jstring", v |-> s]
JBool(b) == [t |-> "jbool", v |-> b]
JArr(q) == [t |-> "jarray", v |-> q]
JObj(f) == [t |-> "jobject", v |-> f]

\* Bytes in flight: a well-formed JSON text (the document it denotes), text
\* that is no JSON, bytes that are no text in any encoding json.loads
\* detects, or nothing (an empty body).
Text(doc) == [kind |-> "text", doc |-> doc]
Malformed == [kind |-> "malformed"]
Undecodable == [kind |-> "undecodable"]
NoBytes == [kind |-> "nothing"]

\* json.loads on a well-formed text: arrays become lists, objects dicts.
RECURSIVE Decode(_)
Decode(doc) ==
    CASE doc.t = "jnull" -> None_
      [] doc.t = "jint" -> PyInt(doc.v)
      [] doc.t = "jreal" -> PyFloat(doc.v)
      [] doc.t = "jstring" -> PyStr(doc.v)
      [] doc.t = "jbool" -> PyBool(doc.v)
      [] doc.t = "jarray" -> PyList([i \in DOMAIN doc.v |-> Decode(doc.v[i])])
      [] doc.t = "jobject" -> PyDict([k \in DOMAIN doc.v |-> Decode(doc.v[k])])

\* json.loads(bytes_): bytes are decoded to text first, then parsed.
json_loads(b) ==
    CASE b.kind = "text" -> Return(Decode(b.doc))
      [] b.kind = "undecodable" -> Raise("UnicodeDecodeError", <<>>)
      [] OTHER -> Raise("JSONDecodeError", <<>>)

----------------------------------------------------------------------------
(* Message schemas and the validator *)

\* The type a schema declares for a key: a literal, a class or union of
\* classes, a nested schema, or typing.Any.
Literal(v) == [kind |-> "literal", value |-> v]
Types(S) == [kind |-> "type", types |-> S]
Nested(s) == [kind |-> "schema", schema |-> s]
AnyType == [kind |-> "any"]

\* A schema entry: the source's key 'id?' is the key "id" with optional TRUE
\* (what key.removesuffix('?') and key.endswith('?') compute).
Entry(key, optional, type) == [key |-> key, optional |-> optional, type |-> type]

_request_schema ==
    << Entry("jsonrpc", FALSE, Literal(PyStr("2.0"))),
       Entry("method", FALSE, Types({"str"})),
       Entry("id", TRUE, Types({"int", "str", "none"})),
       Entry("params", TRUE, Types({"list", "tuple", "dict"})) >>

_error_schema ==
    << Entry("code", FALSE, Types({"int"})),
       Entry("message", FALSE, Types({"str"})),
       Entry("data", TRUE, AnyType) >>

_response_schema ==
    << Entry("jsonrpc", FALSE, Literal(PyStr("2.0"))),
       Entry("id", FALSE, Types({"int", "str", "none"})),
       Entry("result", TRUE, AnyType),
       Entry("error", TRUE, Nested(_error_schema)) >>

RECURSIVE _validate_schema(_, _)

\* A faulty variant of _validate_schema: keys the schema does not declare
\* are let through.
validate_schema_open(obj, schema) ==
    IF obj.t # "dict" THEN FALSE
    ELSE
        LET d == obj.v
            required_keys ==
                {schema[i].key : i \in {k \in DOMAIN schema : ~schema[k].optional}}
        IN  /\ required_keys \subseteq DOMAIN d
            /\ \A i \in DOMAIN schema :
                 LET e == schema[i] IN
                   \/ e.type.kind = "any"
                   \/ e.optional /\ e.key \notin DOMAIN d
                   \/ CASE e.type.kind = "type" -> IsInstance(d[e.key], e.type.types)
                        [] e.type.kind = "schema" -> _validate_schema(d[e.key], e.type.schema)
                        [] OTHER -> d[e.key] = e.type.value

_validate_schema(obj, schema) ==
    IF obj.t # "dict" THEN FALSE
    ELSE
        LET d == obj.v
            all_keys == {schema[i].key : i \in DOMAIN schema}
            required_keys ==
                {schema[i].key : i \in {k \in DOMAIN schema : ~schema[k].optional}}
        IN  /\ required_keys \subseteq DOMAIN d
            /\ DOMAIN d \subseteq all_keys
            /\ \A i \in DOMAIN schema :
                 LET e == schema[i] IN
                   \/ e.type.kind = "any"
                   \/ e.optional /\ e.key \notin DOMAIN d
                   \/ CASE e.type.kind = "type" -> IsInstance(d[e.key], e.type.types)
                        [] e.type.kind = "schema" -> _validate_schema(d[e.key], e.type.schema)
                        [] OTHER -> d[e.key] = e.type.value

\* dict_.get(key, default)
Get(d, key, default) == IF key \in DOMAIN d THEN d[key] ELSE default

----------------------------------------------------------------------------
(* Response *)

\* A faulty variant of Response: only "neither" is rejected, so a Response
\* with both a result and a code is built.
Response_rejects_neither_only(result, code, message, data, id) ==
    IF result = _MISSING /\ code = None_
    THEN Raise("InternalError", <<PyStr("both result and code are set or unset")>>)
    ELSE Return([t |-> "Response", _result |-> result, code |-> code,
                 message |-> message, data |-> data, id |-> id])

\* Response.__init__(result=_MISSING, code=None, message=None, data=None, id)
Response(result, code, message, data, id) ==
    IF (result = _MISSING) = (code = None_)
    THEN Raise("InternalError", <<PyStr("both result and code are set or unset")>>)
    ELSE Return([t |-> "Response", _result |-> result, code |-> code,
                 message |-> message, data |-> data, id |-> id])

is_error(self) == self.code # None_

\* The error table: the kind of JSON-RPC error each code stands for.
_err_types ==
    [code \in {-32700, -32600, -32601, -32602, -32603, -32000} |->
        CASE code = -32700 -> "ParseError"
          [] code = -32600 -> "InvalidRequestError"
          [] code = -32601 -> "MethodNotFoundError"
          [] code = -32602 -> "InvalidParamsError"
          [] code = -32603 -> "InternalError"
          [] OTHER -> "ServerError"]

\* bool(value): what `or` tests.
Truthy(value) ==
    CASE value.t = "none" -> FALSE
      [] value.t = "int" -> value.v # 0
      [] value.t = "bool" -> value.v
      [] value.t \in {"str", "float"} -> value.v # ""
      [] value.t \in {"list", "tuple"} -> value.v # <<>>
      [] value.t = "dict" -> DOMAIN value.v # {}
      [] OTHER -> TRUE

\* Response.raise_if_error: _err_types[self.code] is a dict lookup, which
\* raises KeyError for a code that is no key of the table (True is the key
\* 1, False the key 0).
raise_if_error(self) ==
    IF self.code # None_
    THEN IF self.code.t = "int" /\ self.code.v \in DOMAIN _err_types
         THEN Raise(_err_types[self.code.v],
                    <<IF Truthy(self.data) THEN self.data ELSE self.message>>)
         ELSE Raise("KeyError", <<self.code>>)
    ELSE Return(None_)

\* Response.result
Response_result(self) ==
    LET checked == raise_if_error(self) IN
    IF checked.kind = "raise" THEN checked ELSE Return(self._result)

Response_dump(self) ==
    IF ~is_error(self)
    THEN IF self.id = _BATCH
         THEN self._result
         ELSE PyDict(("jsonrpc" :> PyStr("2.0")) @@ ("id" :> self.id)
                     @@ ("result" :> self._result))
    ELSE LET err == ("code" :> self.code) @@ ("message" :> self.message)
                    @@ (IF self.data # None_ THEN ("data" :> self.data) ELSE <<>>)
         IN  PyDict(("jsonrpc" :> PyStr("2.0")) @@ ("id" :> self.id)
                    @@ ("error" :> PyDict(err)))

Response_load(dict_) ==
    IF _validate_schema(dict_, _response_schema)
    THEN LET d == dict_.v
             e == IF "error" \in DOMAIN d THEN d["error"].v ELSE <<>>
         IN  Response(Get(d, "result", _MISSING), Get(e, "code", None_),
                      Get(e, "message", None_), Get(e, "data", None_), d["id"])
    ELSE Raise("InternalError", <<PyStr("this is not a valid response")>>)

\* [f(x) for x in xs] over outcomes: the first raise propagates, else the
\* list of returned values.
Collect(outs) ==
    LET raised == {i \in DOMAIN outs : outs[i].kind = "raise"}
    IN  IF raised = {}
        THEN Return(PyList([i \in DOMAIN outs |-> outs[i].value]))
        ELSE outs[CHOOSE i \in raised : \A k \in raised : i <= k]

Response_deserialize(b) ==
    LET loaded == json_loads(b) IN
    IF loaded.kind = "raise" THEN loaded
    ELSE LET response_s == loaded.value IN
         IF response_s.t = "list"
         THEN LET members == Collect([i \in DOMAIN response_s.v |->
                                        Response_load(response_s.v[i])])
              IN  IF members.kind = "raise" THEN members
                  ELSE Response(members.value, None_, None_, None_, _BATCH)
         ELSE Response_load(response_s)

----------------------------------------------------------------------------
(* Request: construction, dump, load, deserialize *)

\* Request.__init__(method, params=None, *, id=_MISSING)
Request(method, params, id) ==
    [t |-> "Request", method |-> method, params |-> params, id |-> id,
     _batch |-> <<>>]

\* Request.batch(requests)
batch(requests) == [Request(_BATCH, None_, _BATCH) EXCEPT !._batch = requests]

\* A faulty variant of Request_dump: a missing id is written as null.
Request_dump_null_id(self) ==
    IF self.id = _BATCH THEN PyList(self._batch)
    ELSE PyDict(("jsonrpc" :> PyStr("2.0")) @@ ("method" :> self.method)
                @@ ("id" :> IF self.id # _MISSING THEN self.id ELSE None_)
                @@ (IF self.params # None_ THEN ("params" :> self.params) ELSE <<>>))

Request_dump(self) ==
    IF self.id = _BATCH THEN PyList(self._batch)
    ELSE PyDict(("jsonrpc" :> PyStr("2.0")) @@ ("method" :> self.method)
                @@ (IF self.id # _MISSING THEN ("id" :> self.id) ELSE <<>>)
                @@ (IF self.params # None_ THEN ("params" :> self.params) ELSE <<>>))

\* A faulty variant of Request_load: an object that fails the shape keeps
\* the id it carried.
Request_load_keeps_id(dict_) ==
    IF _validate_schema(dict_, _request_schema)
    THEN LET d == dict_.v
         IN  Request(d["method"], Get(d, "params", None_), Get(d, "id", _MISSING))
    ELSE IF dict_.t = "dict" /\ "id" \in DOMAIN dict_.v
    THEN Request(_INVALID_REQUEST, PyTuple(<<_INVALID_REQUEST>>), dict_.v["id"])
    ELSE Request(_INVALID_REQUEST, PyTuple(<<_INVALID_REQUEST>>), _INVALID_REQUEST)

Request_load(dict_) ==
    IF _validate_schema(dict_, _request_schema)
    THEN LET d == dict_.v
         IN  Request(d["method"], Get(d, "params", None_), Get(d, "id", _MISSING))
    ELSE Request(_INVALID_REQUEST, PyTuple(<<_INVALID_REQUEST>>), _INVALID_REQUEST)

Request_deserialize(b) ==
    LET loaded == json_loads(b) IN
    IF loaded.kind = "raise"
    THEN IF IsInstanceExc(loaded.exc, "JSONDecodeError")
         THEN Return(Request(_PARSE_ERROR, PyTuple(<<_PARSE_ERROR>>), _PARSE_ERROR))
         ELSE loaded
    ELSE LET request_s == loaded.value IN
         IF request_s.t = "list"
         THEN Return(batch([i \in DOMAIN request_s.v |-> Request_load(request_s.v[i])]))
         ELSE Return(Request_load(request_s))

----------------------------------------------------------------------------
(* json.dumps(self, default=_dump_if_can).encode() *)

\* _dump_if_can(obj): what json.dumps calls for an object it cannot encode.
_dump_if_can(obj) ==
    CASE obj.t = "Request" -> Return(Request_dump(obj))
      [] obj.t = "Response" -> Return(Response_dump(obj))
      [] OTHER -> Raise("TypeError", <<>>)

\* json.dumps over the values of the model: lists and tuples are written as
\* arrays, a sentinel is a str and is written as one, an object with a dump
\* method is replaced by its dump.
RECURSIVE Encode(_)
Encode(obj) ==
    CASE obj.t = "none" -> JNull
      [] obj.t = "int" -> JInt(obj.v)
      [] obj.t = "float" -> JReal(obj.v)
      [] obj.t \in {"str", "sentinel"} -> JStr(obj.v)
      [] obj.t = "bool" -> JBool(obj.v)
      [] obj.t \in {"list", "tuple"} -> JArr([i \in DOMAIN obj.v |-> Encode(obj.v[i])])
      [] obj.t = "dict" -> JObj([k \in DOMAIN obj.v |-> Encode(obj.v[k])])
      [] OTHER -> Encode(_dump_if_can(obj).value)

\* Request.serialize and Response.serialize
serialize(self) == Text(Encode(self))

----------------------------------------------------------------------------
(* Capabilities and the method registry *)

\* sub in text, for str operands
Contains(sub, text) ==
    \E i \in 1..(Len(text) - Len(sub) + 1) : SubSeq(text, i, i + Len(sub) - 1) = sub

\* str(value)
str(value) ==
    CASE value.t \in {"str", "sentinel"} -> value.v
      [] value.t = "int" -> ToString(value.v)
      [] value.t = "float" -> value.v
      [] value.t = "none" -> "None"
      [] value.t = "bool" -> IF value.v THEN "True" ELSE "False"
      [] OTHER -> "<" \o value.t \o ">"

\* A capability: its __name__, the names of its positional-or-keyword
\* parameters, whether it takes *args, and what its body does.
Capability(name, params, varargs, body) ==
    [name |-> name, params |-> params, varargs |-> varargs, body |-> body]

\* The texts of the TypeErrors Python raises when a call does not match the
\* signature.
Plural(k) == IF k = 1 THEN "" ELSE "s"
MsgMissing(func, missing) ==
    func.name \o "() missing " \o ToString(Len(missing))
    \o " required positional argument" \o Plural(Len(missing)) \o ": '"
    \o missing[1] \o "'"
    \o (IF Len(missing) > 1 THEN " and '" \o missing[Len(missing)] \o "'" ELSE "")
MsgTooMany(func, given) ==
    func.name \o "() takes " \o ToString(Len(func.params)) \o " positional argument"
    \o Plural(Len(func.params)) \o " but " \o ToString(given)
    \o (IF given = 1 THEN " was given" ELSE " were given")
MsgUnexpected(func, key) ==
    func.name \o "() got an unexpected keyword argument '" \o key \o "'"

\* The texts of the failures the capabilities of the model raise.
MsgOperand == "unsupported operand type(s) for +: 'int' and 'str'"
MsgCrash == "my call crashed"
MsgBody == "bad positional argument in body"
MsgSleep(value) ==
    "'" \o (IF value.t = "none" THEN "NoneType" ELSE value.t)
    \o "' object cannot be interpreted as an integer"
MsgNegative == "sleep length must be non-negative"

RECURSIVE Sum(_)
Sum(q) == IF q = <<>> THEN 0 ELSE Head(q).v + Sum(Tail(q))

\* What a capability's body does once its arguments are bound.
Body(body, args) ==
    CASE body = "sleep" ->
             IF args[1].t \notin {"int", "bool", "float"}
             THEN Raise("TypeError", <<PyStr(MsgSleep(args[1]))>>)
             ELSE IF args[1].t = "int" /\ args[1].v < 0
             THEN Raise("ValueError", <<PyStr(MsgNegative)>>)
             ELSE Return(PyStr("slept for " \o str(args[1]) \o "s"))
      [] body = "sum" ->
             IF \A i \in DOMAIN args : args[i].t = "int"
             THEN Return(PyInt(Sum(args)))
             ELSE Raise("TypeError", <<PyStr(MsgOperand)>>)
      [] body = "hello" -> Return(PyStr("hello " \o str(args[1]) \o "!"))
      [] body = "none" -> Return(None_)
      [] body = "crash" -> Raise("Exception", <<PyStr(MsgCrash)>>)
      [] body = "parse_error" -> Raise("ParseError", <<>>)
      [] body = "invalid_request" -> Raise("InvalidRequestError", <<PyStr("x")>>)
      [] body = "not_found" -> Raise("MethodNotFoundError", <<>>)
      [] body = "type_error_bare" -> Raise("TypeError", <<>>)
      [] body = "type_error_int" -> Raise("TypeError", <<PyInt(5)>>)
      [] body = "type_error_text" -> Raise("TypeError", <<PyStr(MsgBody)>>)

\* func(), func(*params) or func(**params): Python binds the arguments to the
\* signature, raising TypeError on a mismatch; what it returns is the
\* arguments in the order of the parameters.
Bind(func, params) ==
    LET n == Len(func.params)
        names == {func.params[i] : i \in 1..n}
    IN  CASE params.t = "none" ->
                 IF n > 0 THEN Raise("TypeError", <<PyStr(MsgMissing(func, func.params))>>)
                 ELSE Return(<<>>)
          [] params.t \in {"list", "tuple"} ->
                 IF Len(params.v) > n /\ ~func.varargs
                 THEN Raise("TypeError", <<PyStr(MsgTooMany(func, Len(params.v)))>>)
                 ELSE IF Len(params.v) < n
                 THEN Raise("TypeError",
                            <<PyStr(MsgMissing(func, SubSeq(func.params,
                                                            Len(params.v) + 1, n)))>>)
                 ELSE Return(params.v)
          [] OTHER ->
                 LET extra == DOMAIN params.v \ names
                     missing == SelectSeq(func.params,
                                          LAMBDA k : k \notin DOMAIN params.v)
                 IN  IF extra # {}
                     THEN Raise("TypeError",
                                <<PyStr(MsgUnexpected(func, CHOOSE k \in extra : TRUE))>>)
                     ELSE IF missing # <<>>
                     THEN Raise("TypeError", <<PyStr(MsgMissing(func, missing))>>)
                     ELSE Return([i \in 1..n |-> params.v[func.params[i]]])

\* The call of a capability: the binding, then the body.
Call(func, params) ==
    LET bound == Bind(func, params) IN
    IF bound.kind = "raise" THEN bound ELSE Body(func.body, bound.value)

\* The registry of examples/methods.py (sleep, crash_on_call, sum_numbers,
\* say_hello) and capabilities of user code with other outcomes.
sync_method_lookup ==
    [m \in {"sleep", "sum_numbers", "say_hello", "crash_on_call", "noop", "raise_parse",
            "raise_invalid", "raise_not_found", "raise_type_bare",
            "raise_type_int", "raise_type_text"} |->
        CASE m = "sleep" -> Capability("sync_sleep", <<"seconds">>, FALSE, "sleep")
          [] m = "sum_numbers" -> Capability("sync_sum_numbers", <<>>, TRUE, "sum")
          [] m = "say_hello" -> Capability("sync_say_hello", <<"word">>, FALSE, "hello")
          [] m = "crash_on_call" -> Capability("sync_crash_on_call", <<>>, FALSE, "crash")
          [] m = "noop" -> Capability("noop", <<>>, FALSE, "none")
          [] m = "raise_parse" -> Capability("raise_parse", <<>>, FALSE, "parse_error")
          [] m = "raise_invalid" ->
                 Capability("raise_invalid", <<>>, FALSE, "invalid_request")
          [] m = "raise_not_found" ->
                 Capability("raise_not_found", <<>>, FALSE, "not_found")
          [] m = "raise_type_bare" ->
                 Capability("raise_type_bare", <<>>, FALSE, "type_error_bare")
          [] m = "raise_type_int" ->
                 Capability("raise_type_int", <<>>, FALSE, "type_error_int")
          [] m = "raise_type_text" ->
                 Capability("raise_type_text", <<>>, FALSE, "type_error_text")]

\* A registry with nothing in it.
empty_method_lookup == <<>>

----------------------------------------------------------------------------
(* The resolver *)

\* A faulty variant of _raise_if_cannot_resolve: an unknown method is
\* reported as an invalid request.
raise_if_cannot_resolve_wrong_kind(self, method_lookup) ==
    IF self.id = _PARSE_ERROR THEN Raise("ParseError", <<>>)
    ELSE IF self.id = _INVALID_REQUEST THEN Raise("InvalidRequestError", <<>>)
    ELSE IF ~(self.method.t = "str" /\ self.method.v \in DOMAIN method_lookup)
    THEN Raise("InvalidRequestError", <<>>)
    ELSE Return(None_)

_raise_if_cannot_resolve(self, method_lookup) ==
    IF self.id = _PARSE_ERROR THEN Raise("ParseError", <<>>)
    ELSE IF self.id = _INVALID_REQUEST THEN Raise("InvalidRequestError", <<>>)
    ELSE IF ~(self.method.t = "str" /\ self.method.v \in DOMAIN method_lookup)
    THEN Raise("MethodNotFoundError", <<>>)
    ELSE Return(None_)

get_error_data(err) ==
    PyDict(("type" :> PyStr(err.type))
           @@ ("info" :> IF err.args # <<>> THEN PyStr(str(err.args[1])) ELSE None_))

\* `sub in err.args[0]`: err.args[0] raises IndexError when args is empty,
\* and `in` raises TypeError when its right operand is not a container.
InFirstArg(sub, err) ==
    IF err.args = <<>> THEN Raise("IndexError", <<PyStr("tuple index out of range")>>)
    ELSE LET a == err.args[1] IN
         CASE a.t \in {"str", "sentinel"} -> Return(Contains(sub, a.v))
           [] a.t \in {"list", "tuple"} -> Return(\E i \in DOMAIN a.v : a.v[i] = PyStr(sub))
           [] a.t = "dict" -> Return(sub \in DOMAIN a.v)
           [] OTHER -> Raise("TypeError",
                             <<PyStr("argument of type '" \o a.t \o "' is not iterable")>>)

_make_from_exception(self, err) ==
    IF IsInstanceExc(err, "ParseError")
    THEN Response(_MISSING, PyInt(-32700), PyStr("Parse error"), None_, None_)
    ELSE IF IsInstanceExc(err, "InvalidRequestError")
    THEN Response(_MISSING, PyInt(-32600), PyStr("Invalid Request"), None_, None_)
    ELSE IF self.id = _MISSING
    THEN Return(None_)
    ELSE IF IsInstanceExc(err, "MethodNotFoundError")
    THEN Response(_MISSING, PyInt(-32601), PyStr("Method not found"), None_, self.id)
    ELSE LET positional == IF IsInstanceExc(err, "TypeError")
                           THEN InFirstArg("positional argument", err)
                           ELSE Return(FALSE)
             keyword == IF positional.kind = "return" /\ ~positional.value
                           /\ IsInstanceExc(err, "TypeError")
                        THEN InFirstArg("keyword argument", err)
                        ELSE positional
         IN  IF keyword.kind = "raise" THEN keyword
             ELSE IF keyword.value
             THEN Response(_MISSING, PyInt(-32602), PyStr("Invalid params"),
                           get_error_data(err), self.id)
             ELSE Response(_MISSING, PyInt(-32000), PyStr("Server error"),
                           get_error_data(err), self.id)

\* Request.resolve: what it returns or raises (out), the capabilities it
\* invoked, in order (calls), and for a batch what each member it reached
\* returned or raised (results).
RECURSIVE resolve(_, _)
RECURSIVE resolve_members(_, _, _)

\* [request.resolve(method_lookup) for request in self._batch], up to member
\* k: the members are resolved in order and a raise ends the comprehension.
resolve_members(requests, method_lookup, k) ==
    IF k = 0 THEN [results |-> <<>>, raised |-> NoOutcome, calls |-> <<>>]
    ELSE LET prev == resolve_members(requests, method_lookup, k - 1) IN
         IF prev.raised.kind = "raise" THEN prev
         ELSE LET r == resolve(requests[k], method_lookup) IN
              [results |-> Append(prev.results, r.out),
               raised |-> IF r.out.kind = "raise" THEN r.out ELSE NoOutcome,
               calls |-> prev.calls \o r.calls]

\* A faulty variant of resolve_single: a null id is taken for a missing one
\* (`if self.id is not None`).
resolve_single_null_id_silent(self, method_lookup) ==
    LET cannot == _raise_if_cannot_resolve(self, method_lookup) IN
    IF cannot.kind = "raise"
    THEN [out |-> _make_from_exception(self, cannot.exc), calls |-> <<>>,
          results |-> <<>>]
    ELSE LET call == [method |-> self.method.v, params |-> self.params]
             res == Call(method_lookup[self.method.v], self.params)
         IN  IF res.kind = "raise"
             THEN [out |-> _make_from_exception(self, res.exc), calls |-> <<call>>,
                   results |-> <<>>]
             ELSE IF self.id # _MISSING /\ self.id # None_
             THEN LET response == Response(res.value, None_, None_, None_, self.id)
                  IN  [out |-> IF response.kind = "raise"
                               THEN _make_from_exception(self, response.exc)
                               ELSE response,
                       calls |-> <<call>>, results |-> <<>>]
             ELSE [out |-> Return(None_), calls |-> <<call>>, results |-> <<>>]

\* The body of resolve for a request that is no batch (the try statement).
resolve_single(self, method_lookup) ==
    LET cannot == _raise_if_cannot_resolve(self, method_lookup) IN
    IF cannot.kind = "raise"
    THEN [out |-> _make_from_exception(self, cannot.exc), calls |-> <<>>,
          results |-> <<>>]
    ELSE LET call == [method |-> self.method.v, params |-> self.params]
             res == Call(method_lookup[self.method.v], self.params)
         IN  IF res.kind = "raise"
             THEN [out |-> _make_from_exception(self, res.exc), calls |-> <<call>>,
                   results |-> <<>>]
             ELSE IF self.id # _MISSING
             THEN LET response == Response(res.value, None_, None_, None_, self.id)
                  IN  [out |-> IF response.kind = "raise"
                               THEN _make_from_exception(self, response.exc)
                               ELSE response,
                       calls |-> <<call>>, results |-> <<>>]
             ELSE [out |-> Return(None_), calls |-> <<call>>, results |-> <<>>]

\* A faulty variant of resolve: the Batch Response is returned even when it
\* has no entries (`return response`).
resolve_returns_empty_batch(self, method_lookup) ==
    IF self.id = _BATCH
    THEN LET members == resolve_members(self._batch, method_lookup, Len(self._batch))
         IN  IF members.raised.kind = "raise"
             THEN [out |-> members.raised, calls |-> members.calls,
                   results |-> members.results]
             ELSE LET returned == [i \in DOMAIN members.results |->
                                     members.results[i].value]
                      filtered == SelectSeq(returned, LAMBDA r : r # None_)
                      response == Response(PyList(filtered), None_, None_, None_, _BATCH)
                  IN  [out |-> response,
                       calls |-> members.calls, results |-> members.results]
    ELSE resolve_single(self, method_lookup)

resolve(self, method_lookup) ==
    IF self.id = _BATCH
    THEN LET members == resolve_members(self._batch, method_lookup, Len(self._batch))
         IN  IF members.raised.kind = "raise"
             THEN [out |-> members.raised, calls |-> members.calls,
                   results |-> members.results]
             ELSE LET returned == [i \in DOMAIN members.results |->
                                     members.results[i].value]
                      filtered == SelectSeq(returned, LAMBDA r : r # None_)
                      response == Response(PyList(filtered), None_, None_, None_, _BATCH)
                  IN  [out |-> IF response.kind = "raise" \/ filtered # <<>>
                               THEN response ELSE Return(None_),
                       calls |-> members.calls, results |-> members.results]
    ELSE resolve_single(self, method_lookup)

----------------------------------------------------------------------------
(* The concurrent resolver *)

\* The coroutines one resolve_async runs: for a batch one per member, each
\* wrapped in a task by asyncio.gather, otherwise its own body.
Members(self) == IF self.id = _BATCH THEN self._batch ELSE <<self>>

\* A coroutine of resolve_async: not yet run (created), stopped at its await
\* (suspended) or ended (done) with what it returned or raised.
Task(state, out) == [state |-> state, out |-> out]

\* The try statement of resolve_async up to the await: the pre-check, the
\* lookup and the call that binds the arguments. A failure here goes to the
\* except clause without any suspension.
begin_async(self, method_lookup) ==
    LET cannot == _raise_if_cannot_resolve(self, method_lookup) IN
    IF cannot.kind = "raise" THEN [failed |-> TRUE, out |-> cannot, calls |-> <<>>]
    ELSE LET call == [method |-> self.method.v, params |-> self.params]
             bound == Bind(method_lookup[self.method.v], self.params)
         IN  [failed |-> bound.kind = "raise", out |-> bound, calls |-> <<call>>]

\* The try statement of resolve_async from the await on: res is what the
\* awaited capability returned or raised.
end_async(self, res) ==
    IF res.kind = "raise" THEN _make_from_exception(self, res.exc)
    ELSE IF self.id # _MISSING
    THEN LET response == Response(res.value, None_, None_, None_, self.id)
         IN  IF response.kind = "raise"
             THEN _make_from_exception(self, response.exc)
             ELSE response
    ELSE Return(None_)

\* The positions in the completion order ord of the tasks that raised.
RaisedAt(ts, ord) == {k \in DOMAIN ord : ts[ord[k]].out.kind = "raise"}

\* A faulty variant of gather: the results come in the order the tasks
\* ended.
gather_in_completion_order(ts, ord) ==
    IF RaisedAt(ts, ord) # {}
    THEN ts[ord[CHOOSE k \in RaisedAt(ts, ord) : \A j \in RaisedAt(ts, ord) : k <= j]].out
    ELSE Return([k \in DOMAIN ord |-> ts[ord[k]].out.value])

\* await asyncio.gather(*coroutines): the exception of the first task that
\* raised, else, once every task has ended, their results in the order of
\* the arguments.
gather(ts, ord) ==
    IF RaisedAt(ts, ord) # {}
    THEN ts[ord[CHOOSE k \in RaisedAt(ts, ord) : \A j \in RaisedAt(ts, ord) : k <= j]].out
    ELSE Return([i \in DOMAIN ts |-> ts[i].out.value])

\* The awaited gather has a result or an exception to deliver.
GatherDone(ts, ord) ==
    RaisedAt(ts, ord) # {} \/ \A i \in DOMAIN ts : ts[i].state = "done"

\* A faulty variant of resolve_async: the Batch Response is assembled from
\* the results as they complete (asyncio.as_completed).
resolve_async_as_completed(self, ts, ord) ==
    IF self.id = _BATCH
    THEN LET results_ == gather_in_completion_order(ts, ord) IN
         IF results_.kind = "raise" THEN results_
         ELSE LET filtered == SelectSeq(results_.value, LAMBDA r : r # None_)
                  response == Response(PyList(filtered), None_, None_, None_, _BATCH)
              IN  IF response.kind = "raise" \/ filtered # <<>>
                  THEN response ELSE Return(None_)
    ELSE ts[1].out

\* What resolve_async returns or raises once its await has ended.
resolve_async(self, ts, ord) ==
    IF self.id = _BATCH
    THEN LET results_ == gather(ts, ord) IN
         IF results_.kind = "raise" THEN results_
         ELSE LET filtered == SelectSeq(results_.value, LAMBDA r : r # None_)
                  response == Response(PyList(filtered), None_, None_, None_, _BATCH)
              IN  IF response.kind = "raise" \/ filtered # <<>>
                  THEN response ELSE Return(None_)
    ELSE ts[1].out

----------------------------------------------------------------------------
(* The inputs the model draws from *)

\* The longest batch Init draws.
MaxBatch == 3

Absent == [t |-> "absent"]
Opt(key, doc) == IF doc = Absent THEN <<>> ELSE (key :> doc)

\* All sequences over S of length 0..n
SeqsUpTo(S, n) == UNION {[1..k -> S] : k \in 0..n}

MethodNames == DOMAIN sync_method_lookup \cup {"absent"}

\* JSON objects in and around the Request shape: every key absent, well
\* typed or wrongly typed, and a key the schema does not declare.
RequestDocs ==
    { JObj(Opt("jsonrpc", v) @@ Opt("method", m) @@ Opt("id", i) @@ Opt("params", p)
           @@ Opt("extra", x)) :
        v \in {Absent, JStr("2.0"), JStr("1.0"), JReal("2.0")},
        m \in {Absent, JInt(1)} \cup {JStr(name) : name \in MethodNames},
        i \in {Absent, JNull, JInt(1), JStr("a"), JBool(TRUE), JReal("1.5")},
        p \in {Absent, JArr(<<>>), JArr(<<JInt(1), JInt(2), JInt(3)>>),
               JArr(<<JStr("world")>>), JObj("word" :> JStr("world")),
               JObj("world" :> JStr("wrong param name")), JStr("x")},
        x \in {Absent, JInt(0)} }

\* The members batches are drawn from: requests and notifications for
\* capabilities with each kind of outcome, and values that are no Request.
MemberDocs ==
    { JObj(("jsonrpc" :> JStr("2.0")) @@ ("method" :> JStr(m)) @@ Opt("id", i)) :
        m \in {"noop", "raise_parse", "raise_type_bare", "absent"},
        i \in {Absent, JInt(1), JInt(2)} }
    \cup { JObj(("jsonrpc" :> JStr("2.0")) @@ ("id" :> JInt(1))), JInt(1) }

\* The bytes a server may be handed.
WireInputs ==
    {Malformed, Undecodable}
    \cup {Text(d) : d \in {JNull, JInt(1), JStr("x")}}
    \cup {Text(d) : d \in RequestDocs}
    \cup {Text(JArr(q)) : q \in SeqsUpTo(MemberDocs, MaxBatch)}

\* The members the concurrent resolver's batches are drawn from: two
\* capabilities that return, a notification, a call that does not bind, two
\* capabilities whose failure escapes the resolver, and a value that is no
\* Request.
AsyncMemberDocs ==
    { JObj(("jsonrpc" :> JStr("2.0")) @@ ("method" :> JStr("sleep"))
           @@ ("params" :> JArr(<<JInt(1)>>)) @@ ("id" :> JInt(1))),
      JObj(("jsonrpc" :> JStr("2.0")) @@ ("method" :> JStr("sum_numbers"))
           @@ ("params" :> JArr(<<JInt(1), JInt(2)>>)) @@ ("id" :> JStr("a"))),
      JObj(("jsonrpc" :> JStr("2.0")) @@ ("method" :> JStr("noop"))),
      JObj(("jsonrpc" :> JStr("2.0")) @@ ("method" :> JStr("say_hello"))
           @@ ("id" :> JInt(2))),
      JObj(("jsonrpc" :> JStr("2.0")) @@ ("method" :> JStr("raise_type_bare"))
           @@ ("id" :> JInt(3))),
      JObj(("jsonrpc" :> JStr("2.0")) @@ ("method" :> JStr("raise_type_int"))
           @@ ("id" :> JInt(4))),
      JInt(1) }

\* The bytes a server that resolves concurrently may be handed.
AsyncWireInputs ==
    {Malformed}
    \cup {Text(d) : d \in MemberDocs \cup AsyncMemberDocs}
    \cup {Text(JArr(q)) : q \in SeqsUpTo(AsyncMemberDocs, MaxBatch)}

\* The Requests client code builds with the constructor and Request.batch.
ClientSingles ==
    { Request(PyStr(m), p, i) :
        m \in {"sum_numbers", "say_hello", "absent"},
        p \in {None_, PyList(<<>>), PyList(<<PyInt(1), PyInt(2), PyInt(3)>>),
               PyTuple(<<PyStr("world")>>), PyDict("word" :> PyStr("world")),
               PyDict(<<>>)},
        i \in {_MISSING, None_, PyInt(1), PyStr("a")} }

ClientMembers ==
    { Request(PyStr(m), p, i) :
        m \in {"sum_numbers", "crash_on_call"},
        p \in {None_, PyList(<<PyInt(1), PyInt(2)>>)},
        i \in {_MISSING, None_, PyInt(1)} }

ClientRequests ==
    ClientSingles \cup {batch(q) : q \in SeqsUpTo(ClientMembers, MaxBatch)}

\* JSON objects in and around the Response shape.
ErrorDocs ==
    { JObj(Opt("code", c) @@ Opt("message", m) @@ Opt("data", d)) :
        c \in {Absent, JInt(-32601), JInt(7), JStr("1")},
        m \in {Absent, JStr("Method not found"), JInt(0)},
        d \in {Absent, JNull, JInt(0)} }
    \cup {JStr("error"), JObj(("code" :> JInt(1)) @@ ("message" :> JStr("m"))
                              @@ ("result" :> JInt(1)))}

ResponseDocs ==
    { JObj(Opt("jsonrpc", v) @@ Opt("id", i) @@ Opt("result", r) @@ Opt("error", e)) :
        v \in {Absent, JStr("2.0"), JStr("1.0")},
        i \in {Absent, JNull, JInt(1), JStr("a"), JReal("1.5")},
        r \in {Absent, JNull, JInt(6), JStr("=-=MISSING=-=")},
        e \in {Absent} \cup ErrorDocs }

ResponseMemberDocs ==
    { JObj(("jsonrpc" :> JStr("2.0")) @@ ("id" :> JInt(1)) @@ ("result" :> JInt(6))),
      JObj(("jsonrpc" :> JStr("2.0")) @@ ("id" :> JNull)
           @@ ("error" :> JObj(("code" :> JInt(-32600))
                               @@ ("message" :> JStr("Invalid Request"))))),
      JObj(("jsonrpc" :> JStr("2.0")) @@ ("id" :> JInt(2))),
      JInt(1) }

\* The bytes a client may be handed by a peer.
PeerInputs ==
    {Malformed, Undecodable}
    \cup {Text(d) : d \in {JNull, JStr("x")}}
    \cup {Text(d) : d \in ResponseDocs}
    \cup {Text(JArr(q)) : q \in SeqsUpTo(ResponseMemberDocs, MaxBatch)}

\* The schemas of the module, by name.
Schemas == {"request", "response", "error"}
SchemaOf(name) ==
    CASE name = "request" -> _request_schema
      [] name = "response" -> _response_schema
      [] OTHER -> _error_schema

\* The values _validate_schema may be handed: what json.loads gives for the
\* documents in and around the three shapes, and values that are no dict.
ValidateObjs ==
    {Decode(d) : d \in RequestDocs \cup ResponseDocs \cup ErrorDocs}
    \cup {None_, PyInt(1), PyStr("2.0"), PyList(<<>>), PyBool(TRUE)}

\* The keyword arguments Response(...) may be called with.
ResponseArgs ==
    [result : {_MISSING, None_, PyInt(6), PyList(<<>>)},
     code : {None_, PyInt(-32000), PyInt(0)},
     message : {None_, PyStr("Server error")},
     data : {None_, PyInt(0), PyDict("type" :> PyStr("KeyError"))},
     id : {None_, PyInt(1), PyStr("a")}]
NoArgs == [result |-> NoValue]

----------------------------------------------------------------------------
(* The exchange of examples/client.py and examples/server.py, blocking:      *)
(* the client builds and serializes a Request, the server deserializes and   *)
(* resolves it and writes the Response, the client deserializes the reply.   *)

Registries == {sync_method_lookup, empty_method_lookup}

Idle ==
    /\ request = NoValue
    /\ outcome = NoOutcome
    /\ calls = <<>>
    /\ results = <<>>
    /\ received = NoOutcome
    /\ tasks = <<>>
    /\ order = <<>>

Init ==
    /\ Idle
    /\ \/ /\ origin = "client"
          /\ pc = "built"
          /\ sent \in ClientRequests
          /\ bytes_ = NoBytes
          /\ kwargs = NoArgs
          /\ registry = sync_method_lookup
       \/ /\ origin = "wire"
          /\ pc = "sent"
          /\ sent = NoValue
          /\ bytes_ \in WireInputs
          /\ kwargs = NoArgs
          /\ registry \in Registries
       \/ /\ origin = "peer"
          /\ pc = "replied"
          /\ sent = NoValue
          /\ bytes_ \in PeerInputs
          /\ kwargs = NoArgs
          /\ registry = sync_method_lookup
       \/ /\ origin = "construct"
          /\ pc = "construct"
          /\ sent = NoValue
          /\ bytes_ = NoBytes
          /\ kwargs \in ResponseArgs
          /\ registry = sync_method_lookup

\* client: request.serialize()
Serialize ==
    /\ pc = "built"
    /\ bytes_' = serialize(sent)
    /\ pc' = "sent"
    /\ UNCHANGED <<origin, sent, request, outcome, calls, results, kwargs, received, registry,
                   tasks, order>>

\* server: Request.deserialize(body)
Deserialize ==
    /\ pc = "sent"
    /\ LET r == Request_deserialize(bytes_) IN
         IF r.kind = "raise"
         THEN /\ outcome' = r
              /\ pc' = "deserialize_raised"
              /\ UNCHANGED request
         ELSE /\ request' = r.value
              /\ pc' = "deserialized"
              /\ UNCHANGED outcome
    /\ UNCHANGED <<origin, sent, bytes_, calls, results, kwargs, received, registry,
                   tasks, order>>

\* server: request.resolve(method_lookup)
Resolve ==
    /\ pc = "deserialized"
    /\ LET r == resolve(request, registry) IN
         /\ outcome' = r.out
         /\ calls' = r.calls
         /\ results' = r.results
         /\ pc' = IF r.out.kind = "raise" THEN "resolve_raised" ELSE "resolved"
    /\ UNCHANGED <<origin, sent, bytes_, request, kwargs, received, registry, tasks, order>>

\* server: response.serialize() if response else b''; also any code that
\* serializes the Response it built
Reply ==
    /\ pc \in {"resolved", "constructed"}
    /\ outcome.kind = "return"
    /\ IF outcome.value # None_
       THEN /\ bytes_' = serialize(outcome.value)
            /\ pc' = "replied"
       ELSE /\ bytes_' = NoBytes
            /\ pc' = "silent"
    /\ UNCHANGED <<origin, sent, request, outcome, calls, results, kwargs, received, registry,
                   tasks, order>>

\* client: Response.deserialize(body)
Receive ==
    /\ pc = "replied"
    /\ received' = Response_deserialize(bytes_)
    /\ pc' = "received"
    /\ UNCHANGED <<origin, sent, bytes_, request, outcome, calls, results, kwargs, registry,
                   tasks, order>>

\* any code: Response(result=..., code=..., message=..., data=..., id=...)
Construct ==
    /\ pc = "construct"
    /\ outcome' = Response(kwargs.result, kwargs.code, kwargs.message, kwargs.data,
                            kwargs.id)
    /\ pc' = "constructed"
    /\ UNCHANGED <<origin, sent, bytes_, request, calls, results, kwargs, received, registry,
                   tasks, order>>

Next ==
    \/ Serialize
    \/ Deserialize
    \/ Resolve
    \/ Reply
    \/ Receive
    \/ Construct

Spec == Init /\ [][Next]_vars

----------------------------------------------------------------------------
(* The server of examples/server.py that resolves concurrently: it           *)
(* deserializes the bytes, awaits resolve_async and writes the Response.     *)
(* The event loop runs one coroutine at a time, from one await to the next.  *)

\* The registry handed to resolve_async: capabilities with the outcomes of
\* the blocking ones, which are awaited and may suspend.
async_method_lookup == sync_method_lookup

InitAsync ==
    /\ Idle
    /\ origin = "wire"
    /\ pc = "sent"
    /\ sent = NoValue
    /\ bytes_ \in AsyncWireInputs
    /\ kwargs = NoArgs
    /\ registry = async_method_lookup

\* await request.resolve_async(method_lookup): for a batch gather wraps one
\* coroutine per member in a task and the caller suspends; otherwise the
\* coroutine is the body itself.
ResolveAsync ==
    /\ pc = "deserialized"
    /\ tasks' = [i \in DOMAIN Members(request) |-> Task("created", NoOutcome)]
    /\ pc' = "awaiting"
    /\ UNCHANGED <<origin, sent, bytes_, request, outcome, calls, results, kwargs,
                   received, registry, order>>

\* The event loop runs the coroutine of member i for the first time; the
\* tasks are run in the order gather created them. The coroutine ends in
\* this step unless the awaited capability suspends.
TaskStart(i) ==
    /\ pc = "awaiting"
    /\ i \in DOMAIN tasks
    /\ tasks[i].state = "created"
    /\ \A j \in 1..(i - 1) : tasks[j].state # "created"
    /\ LET self == Members(request)[i]
           begun == begin_async(self, registry)
       IN  /\ calls' = calls \o begun.calls
           /\ IF begun.failed
              THEN /\ tasks' = [tasks EXCEPT ![i] =
                                   Task("done", _make_from_exception(self, begun.out.exc))]
                   /\ order' = Append(order, i)
              ELSE \E suspends \in BOOLEAN :
                     IF suspends
                     THEN /\ tasks' = [tasks EXCEPT ![i] = Task("suspended", NoOutcome)]
                          /\ UNCHANGED order
                     ELSE /\ tasks' = [tasks EXCEPT ![i] =
                                 Task("done",
                                      end_async(self, Body(registry[self.method.v].body,
                                                           begun.out.value)))]
                          /\ order' = Append(order, i)
    /\ UNCHANGED <<origin, sent, bytes_, request, outcome, results, kwargs, received,
                   registry, pc>>

\* The capability member i awaits ends, and the event loop resumes the
\* coroutine; suspended capabilities end in any order. gather cancels no
\* task, so this may happen after resolve_async has raised.
TaskResume(i) ==
    /\ pc \in {"awaiting", "resolve_raised"}
    /\ i \in DOMAIN tasks
    /\ tasks[i].state = "suspended"
    /\ \A j \in DOMAIN tasks : tasks[j].state # "created"
    /\ LET self == Members(request)[i] IN
         tasks' = [tasks EXCEPT ![i] =
                     Task("done", end_async(self, Call(registry[self.method.v],
                                                       self.params)))]
    /\ order' = Append(order, i)
    /\ UNCHANGED <<origin, sent, bytes_, request, outcome, calls, results, kwargs,
                   received, registry, pc>>

\* The await of resolve_async ends: the caller gets what it returns or
\* raises.
AwaitDone ==
    /\ pc = "awaiting"
    /\ \A j \in DOMAIN tasks : tasks[j].state # "created"
    /\ IF request.id = _BATCH THEN GatherDone(tasks, order)
       ELSE tasks[1].state = "done"
    /\ LET r == resolve_async(request, tasks, order) IN
         /\ outcome' = r
         /\ results' = IF request.id = _BATCH /\ r.kind = "return"
                       THEN [i \in DOMAIN tasks |-> tasks[i].out] ELSE <<>>
         /\ pc' = IF r.kind = "raise" THEN "resolve_raised" ELSE "resolved"
    /\ UNCHANGED <<origin, sent, bytes_, request, calls, kwargs, received, registry,
                   tasks, order>>

NextAsync ==
    \/ Deserialize
    \/ ResolveAsync
    \/ \E i \in 1..MaxBatch : TaskStart(i)
    \/ \E i \in 1..MaxBatch : TaskResume(i)
    \/ AwaitDone
    \/ Reply

SpecAsync == InitAsync /\ [][NextAsync]_vars

----------------------------------------------------------------------------
(* The validator on its own: any code calls _validate_schema(obj, schema).   *)

InitValidate ==
    /\ Idle
    /\ origin = "validate"
    /\ pc = "validate"
    /\ sent = NoValue
    /\ bytes_ = NoBytes
    /\ kwargs \in [obj : ValidateObjs, schema : Schemas]
    /\ registry = empty_method_lookup

\* _validate_schema(obj, schema)
Validate ==
    /\ pc = "validate"
    /\ outcome' = Return(PyBool(_validate_schema(kwargs.obj, SchemaOf(kwargs.schema))))
    /\ pc' = "validated"
    /\ UNCHANGED <<origin, sent, bytes_, request, calls, results, kwargs, received,
                   registry, tasks, order>>

NextValidate == Validate

SpecValidate == InitValidate /\ [][NextValidate]_vars

----------------------------------------------------------------------------
(* The client of examples/client.py on its own: it deserializes the bytes a  *)
(* peer sent and reads the result of the Response.                           *)

InitClient ==
    /\ Idle
    /\ origin = "peer"
    /\ pc = "replied"
    /\ sent = NoValue
    /\ bytes_ \in PeerInputs
    /\ kwargs = NoArgs
    /\ registry = sync_method_lookup

\* client: response.result()
ReadResult ==
    /\ pc = "received"
    /\ received.kind = "return"
    /\ outcome' = Response_result(received.value)
    /\ pc' = "read"
    /\ UNCHANGED <<origin, sent, bytes_, request, calls, results, kwargs, received,
                   registry, tasks, order>>

NextClient ==
    \/ Receive
    \/ ReadResult

SpecClient == InitClient /\ [][NextClient]_vars

----------------------------------------------------------------------------
(* Vocabulary of the properties *)

\* resolve_async has been awaited on the deserialized request and has ended.
ResolvedAsync == pc \in {"resolved", "resolve_raised", "replied", "silent"} /\ tasks # <<>>

\* resolve has been called on the deserialized request and has ended.
Resolved == pc \in {"resolved", "resolve_raised"}

\* A request that is neither a batch nor a decode-time failure.
IsValid(r) == r.t = "Request" /\ r.id \notin {_BATCH, _PARSE_ERROR, _INVALID_REQUEST}
IsBatch(r) == r.t = "Request" /\ r.id = _BATCH
IsNotification(r) == r.t = "Request" /\ r.id = _MISSING
Registered(r) == r.method.t = "str" /\ r.method.v \in DOMAIN registry

Failure(code, message, data, id) ==
    [t |-> "Response", _result |-> _MISSING, code |-> PyInt(code),
     message |-> PyStr(message), data |-> data, id |-> id]
Success(result, id) ==
    [t |-> "Response", _result |-> result, code |-> None_, message |-> None_,
     data |-> None_, id |-> id]

\* The value the server decoded, when the bytes were a JSON text.
Decoded == Decode(bytes_.doc)
FromWire == origin = "wire" /\ bytes_.kind = "text"

\* The indices of the members of a batch that satisfy P, in input order.
Indices(q, P(_)) == SelectSeq([i \in 1..Len(q) |-> i], LAMBDA i : P(q[i]))

----------------------------------------------------------------------------
(* C1: a request without an id field is never answered: whatever its       *)
(* capability does, resolve returns None.                                  *)
NotificationYieldsNothing ==
    (Resolved /\ IsNotification(request)) => outcome = Return(None_)

(* C2: a batch of members that passed the shape, n >= 1 of them carrying   *)
(* an id, resolves to a Batch Response of exactly n entries, the i-th      *)
(* being the Response of the i-th member with an id and carrying its id.   *)
BatchResponseMatchesMembers ==
    (/\ Resolved
     /\ IsBatch(request)
     /\ \A i \in DOMAIN request._batch : IsValid(request._batch[i])
     /\ \E i \in DOMAIN request._batch : ~IsNotification(request._batch[i]))
    => LET with_id == Indices(request._batch, LAMBDA m : ~IsNotification(m)) IN
       /\ outcome.kind = "return"
       /\ outcome.value.t = "Response"
       /\ outcome.value.id = _BATCH
       /\ ~is_error(outcome.value)
       /\ Len(outcome.value._result.v) = Len(with_id)
       /\ \A k \in DOMAIN with_id :
            /\ outcome.value._result.v[k] = results[with_id[k]].value
            /\ outcome.value._result.v[k].id = request._batch[with_id[k]].id

(* C3: resolve never raises: it ends by returning a Response or None.      *)
ResolveNeverRaises ==
    /\ pc # "resolve_raised"
    /\ pc = "resolved" => (outcome.value = None_ \/ outcome.value.t = "Response")

(* C4: a request with an id for a method that is not in the registry is    *)
(* answered with code -32601, message "Method not found", no data and the  *)
(* request's id, an explicit null included; no capability is invoked.      *)
MethodNotFoundKeepsId ==
    (Resolved /\ IsValid(request) /\ ~IsNotification(request) /\ ~Registered(request))
    => /\ outcome = Return(Failure(-32601, "Method not found", None_, request.id))
       /\ "data" \notin DOMAIN Response_dump(outcome.value).v["error"].v
       /\ calls = <<>>

MethodNotFoundNullId ==
    /\ pc = "resolved"
    /\ FromWire
    /\ IsValid(request) /\ ~Registered(request)
    /\ "id" \in DOMAIN bytes_.doc.v /\ bytes_.doc.v["id"] = JNull
    /\ outcome.value = Failure(-32601, "Method not found", None_, None_)

InvalidRequestResponse == Failure(-32600, "Invalid Request", None_, None_)
ParseErrorResponse == Failure(-32700, "Parse error", None_, None_)

\* Member i of the decoded array failed the Request shape.
FailsShape(value) == ~_validate_schema(value, _request_schema)

(* C5: a decoded value that fails the Request shape, alone or as a member  *)
(* of a batch, with or without an id key, resolves to code -32600,         *)
(* "Invalid Request", null id; a returned Batch Response holds that entry  *)
(* at the member's place; only members that passed the shape and name a    *)
(* registered method are invoked.                                          *)
InvalidRequestAnswered ==
    (FromWire /\ Resolved) =>
        IF Decoded.t # "list"
        THEN FailsShape(Decoded) =>
                 /\ outcome = Return(InvalidRequestResponse)
                 /\ calls = <<>>
        ELSE LET reached == 1..Len(results)
                 invoked == {i \in reached : /\ ~FailsShape(Decoded.v[i])
                                             /\ Registered(request._batch[i])}
                 answered == Indices(results, LAMBDA r : r.kind = "return"
                                                          /\ r.value # None_)
             IN  /\ \A i \in reached :
                      FailsShape(Decoded.v[i]) =>
                          /\ results[i] = Return(InvalidRequestResponse)
                          /\ pc = "resolved" =>
                               \E k \in DOMAIN answered :
                                   /\ answered[k] = i
                                   /\ outcome.value._result.v[k] = InvalidRequestResponse
                 /\ Len(calls) = Cardinality(invoked)
                 /\ \A c \in DOMAIN calls :
                      \E i \in invoked : calls[c].method = request._batch[i].method.v

InvalidMemberWithIdAnswered ==
    /\ pc = "resolved"
    /\ FromWire
    /\ Decoded.t = "list"
    /\ Len(Decoded.v) = 3
    /\ Decoded.v[1].t = "dict" /\ "id" \in DOMAIN Decoded.v[1].v
    /\ ~IsNotification(request._batch[1]) /\ IsValid(request._batch[1])
    /\ IsNotification(request._batch[2])
    /\ FailsShape(Decoded.v[3])
    /\ Decoded.v[3].t = "dict" /\ "id" \in DOMAIN Decoded.v[3].v
    /\ Len(outcome.value._result.v) = 2
    /\ outcome.value._result.v[2] = InvalidRequestResponse

(* C6: bytes that are no JSON text never make deserialize raise; the       *)
(* request they yield resolves, against every registry, to code -32700,    *)
(* "Parse error", no data, null id, and no capability is invoked.          *)
MalformedBytesAnswered ==
    (origin = "wire" /\ bytes_.kind \in {"malformed", "undecodable"}) =>
        /\ pc # "deserialize_raised"
        /\ Resolved => /\ outcome = Return(ParseErrorResponse)
                       /\ calls = <<>>

(* C7: a request that passed the shape, carries an id key (an integer, a   *)
(* text or null) and whose registered capability returns v is answered     *)
(* with result v and its own id; an explicit null id is an id.             *)
RequestWithIdAnswered ==
    /\ (FromWire /\ Resolved /\ Decoded.t = "dict" /\ ~FailsShape(Decoded)
        /\ "id" \in DOMAIN Decoded.v)
       => request.id = Decoded.v["id"]
    /\ (Resolved /\ IsValid(request) /\ ~IsNotification(request) /\ Registered(request))
       => LET res == Call(registry[request.method.v], request.params) IN
          res.kind = "return" => outcome = Return(Success(res.value, request.id))

NullIdAnswered ==
    /\ pc = "resolved"
    /\ FromWire
    /\ Decoded.t = "dict" /\ ~FailsShape(Decoded)
    /\ "id" \in DOMAIN Decoded.v /\ Decoded.v["id"] = None_
    /\ Decoded.v["method"] = PyStr("sum_numbers")
    /\ outcome.value = Success(PyInt(6), None_)

FromPeer == origin = "peer" /\ bytes_.kind = "text"

\* The Responses an outcome holds: the Response returned and, for a Batch
\* Response, its entries.
ResponsesOf(o) ==
    IF o.kind = "return" /\ o.value.t = "Response"
    THEN {o.value} \cup
         (IF o.value.id = _BATCH /\ o.value._result.t = "list"
          THEN {o.value._result.v[i] : i \in DOMAIN o.value._result.v}
          ELSE {})
    ELSE {}

AllResponses ==
    ResponsesOf(outcome) \cup ResponsesOf(received)
    \cup UNION {ResponsesOf(results[i]) : i \in DOMAIN results}

ExactlyOne(r) == (r._result = _MISSING) # (r.code = None_)
BothOrNeither(a, b) == a = b

(* C8: every Response there is, whether constructed, returned by the       *)
(* resolver or loaded from the wire, has a result or a code and not both;  *)
(* a constructor call or a wire object with both or with neither raises    *)
(* InternalError and yields no Response.                                   *)
ResponseIsSuccessOrFailure ==
    /\ \A r \in AllResponses : ExactlyOne(r)
    /\ pc = "constructed" =>
         /\ (outcome.kind = "raise")
              = BothOrNeither(kwargs.result = _MISSING, kwargs.code = None_)
         /\ outcome.kind = "raise" => outcome.exc.type = "InternalError"
    /\ (/\ pc = "received" /\ FromPeer /\ Decoded.t = "dict"
        /\ BothOrNeither("result" \in DOMAIN Decoded.v, "error" \in DOMAIN Decoded.v))
       => (received.kind = "raise" /\ received.exc.type = "InternalError")

ResultAndErrorRejected ==
    /\ pc = "received"
    /\ FromPeer
    /\ _validate_schema(Decoded, _response_schema)
    /\ "result" \in DOMAIN Decoded.v /\ "error" \in DOMAIN Decoded.v
    /\ received.kind = "raise"

\* Field-for-field equality of Requests; a params sequence is compared by
\* its elements (JSON has one array: a tuple comes back as a list).
SameParams(a, b) ==
    \/ a = b
    \/ a.t \in {"list", "tuple"} /\ b.t \in {"list", "tuple"} /\ a.v = b.v
SameSingle(a, b) ==
    /\ a.method = b.method
    /\ a.id = b.id
    /\ SameParams(a.params, b.params)
    /\ a._batch = <<>> /\ b._batch = <<>>
SameRequest(a, b) ==
    IF IsBatch(a)
    THEN /\ IsBatch(b)
         /\ Len(a._batch) = Len(b._batch)
         /\ \A i \in DOMAIN a._batch : SameSingle(a._batch[i], b._batch[i])
    ELSE SameSingle(a, b)

\* A Response as the two overloads of the constructor declare it: a result
\* and an id, or an integer code, a text message, optional data and an id.
WellFormedSingle(r) ==
    /\ r.t = "Response"
    /\ r.id.t \in {"int", "str", "none"}
    /\ IF is_error(r)
       THEN r.code.t = "int" /\ r.message.t = "str"
       ELSE r.message = None_ /\ r.data = None_
WellFormedResponse(r) ==
    IF r.id = _BATCH
    THEN \A i \in DOMAIN r._result.v : WellFormedSingle(r._result.v[i])
    ELSE WellFormedSingle(r)

----------------------------------------------------------------------------
(* C10: resolve_async has the outcome of resolve. Whenever the await of     *)
(* resolve_async on a request or batch has ended, under any order in which  *)
(* the suspended capabilities ended, it has returned exactly what resolve   *)
(* returns for that request and a registry with the same outcomes per call  *)
(* (the same Response, the same Batch Response entry for entry, or          *)
(* nothing), and it has raised only where resolve raises.                   *)
AsyncMatchesBlocking ==
    ResolvedAsync =>
        LET blocking == resolve(request, sync_method_lookup).out IN
        /\ outcome.kind = blocking.kind
        /\ outcome.kind = "return" => outcome.value = blocking.value

\* A batch of two answered requests whose second capability ended first has
\* been resolved concurrently into a Batch Response.
AsyncBatchOutOfOrder ==
    /\ ResolvedAsync
    /\ request.id = _BATCH
    /\ outcome.kind = "return"
    /\ outcome.value # None_
    /\ \E a, b \in DOMAIN order :
         /\ a < b
         /\ order[a] > order[b]
         /\ tasks[order[a]].out.value # None_
         /\ tasks[order[b]].out.value # None_
         /\ tasks[order[a]].out.value.code = None_
         /\ tasks[order[b]].out.value.code = None_
         /\ tasks[order[a]].out.value # tasks[order[b]].out.value

----------------------------------------------------------------------------
(* C11: fan-out and fan-in of the concurrent batch. While resolve_async     *)
(* waits, a coroutine has been launched for every member of the batch; a    *)
(* Batch Response is delivered only when every member's coroutine has       *)
(* ended; and its entries are the members' Responses in the order of the    *)
(* batch, notifications dropped, whatever the order they ended in.          *)
FanOutFanIn ==
    /\ (pc = "awaiting" /\ IsBatch(request)) => Len(tasks) = Len(request._batch)
    /\ (ResolvedAsync /\ IsBatch(request) /\ outcome.kind = "return")
       => /\ \A i \in DOMAIN tasks : tasks[i].state = "done"
          /\ LET answered == Indices(tasks, LAMBDA task : task.out.value # None_) IN
             IF answered = <<>> THEN outcome.value = None_
             ELSE /\ outcome.value # None_
                  /\ outcome.value._result.v =
                       [k \in DOMAIN answered |-> tasks[answered[k]].out.value]

\* A batch of three whose last member ended first and whose second member
\* is a notification has been resolved concurrently into a Batch Response
\* of two entries.
FanInOfThree ==
    /\ ResolvedAsync
    /\ IsBatch(request)
    /\ Len(tasks) = 3
    /\ order[1] = 3
    /\ IsNotification(request._batch[2])
    /\ outcome.kind = "return"
    /\ outcome.value # None_
    /\ Len(outcome.value._result.v) = 2
    /\ outcome.value._result.v[1].id = request._batch[1].id
    /\ outcome.value._result.v[2].id = request._batch[3].id
    /\ request._batch[1].id # request._batch[3].id

----------------------------------------------------------------------------
(* C12: a member's failure stays in that member. Whenever a batch has been  *)
(* resolved, every member that resolved alone is answered with a Response   *)
(* has that same Response in the Batch Response, whatever its siblings'     *)
(* capabilities raised.                                                     *)
SiblingsUnaffected ==
    (Resolved /\ IsBatch(request))
    => \A i \in DOMAIN request._batch :
         LET alone == resolve(request._batch[i], registry).out IN
         (alone.kind = "return" /\ alone.value # None_)
         => /\ outcome.kind = "return"
            /\ outcome.value # None_
            /\ \E k \in DOMAIN outcome.value._result.v :
                 outcome.value._result.v[k] = alone.value

----------------------------------------------------------------------------
(* C13: the empty array is answered. Deserializing the JSON text [] and     *)
(* resolving the result returns the Invalid Request Response (code -32600,  *)
(* null id); and resolve returns nothing only for a notification or a       *)
(* batch of one or more members that are all notifications.                 *)
EmptyArrayAnswered ==
    /\ (FromWire /\ Resolved /\ Decoded = PyList(<<>>))
       => outcome = Return(Failure(-32600, "Invalid Request", None_, None_))
    /\ (FromWire /\ Resolved /\ outcome = Return(None_))
       => \/ IsNotification(request)
          \/ /\ IsBatch(request)
             /\ request._batch # <<>>
             /\ \A i \in DOMAIN request._batch : IsNotification(request._batch[i])

----------------------------------------------------------------------------
----------------------------------------------------------------------------
(* C15: Invalid params is the answer to an argument mismatch and to nothing *)
(* else. For a request with an id whose method is registered: when binding  *)
(* the params to the capability's signature fails, resolve returns the      *)
(* failure Response -32602 "Invalid params" with the request's id; when the *)
(* params bind, no Response with code -32602 is returned.                   *)
InvalidParamsIffMismatch ==
    (Resolved /\ IsValid(request) /\ ~IsNotification(request) /\ Registered(request))
    => LET bound == Bind(registry[request.method.v], request.params) IN
       /\ bound.kind = "raise"
          => outcome = Return(Failure(-32602, "Invalid params",
                                      get_error_data(bound.exc), request.id))
       /\ (bound.kind = "return" /\ outcome.kind = "return")
          => outcome.value.code # PyInt(-32602)

----------------------------------------------------------------------------
(* C16: a failure of the capability is a server failure of the request.     *)
(* For a request with an id whose method is registered and whose params     *)
(* bind: when the capability's body raises, resolve returns a failure       *)
(* Response with code -32603 or -32000, the request's id, and data naming   *)
(* the failure's kind and its message.                                      *)
CapabilityFailureIsServerError ==
    (Resolved /\ IsValid(request) /\ ~IsNotification(request) /\ Registered(request))
    => LET bound == Bind(registry[request.method.v], request.params)
           res == Call(registry[request.method.v], request.params)
       IN  (bound.kind = "return" /\ res.kind = "raise")
           => /\ outcome.kind = "return"
              /\ outcome.value # None_
              /\ outcome.value.code \in {PyInt(-32603), PyInt(-32000)}
              /\ outcome.value.id = request.id
              /\ outcome.value.data = get_error_data(res.exc)

----------------------------------------------------------------------------
\* A value satisfies a declared type: equality for a literal, being an
\* instance of one of the classes for a class or union, validity for a nested
\* shape, nothing for any.
RECURSIVE Satisfies(_, _)
RECURSIVE Conforms(_, _)
Satisfies(value, type) ==
    CASE type.kind = "literal" -> value = type.value
      [] type.kind = "type" -> \E class \in type.types : IsInstance(value, {class})
      [] type.kind = "schema" -> Conforms(value, type.schema)
      [] OTHER -> TRUE

\* The four conditions of the shape, stated key by key.
Conforms(value, shape) ==
    /\ value.t = "dict"
    /\ \A key \in DOMAIN value.v : \E i \in DOMAIN shape : shape[i].key = key
    /\ \A i \in DOMAIN shape : ~shape[i].optional => shape[i].key \in DOMAIN value.v
    /\ \A key \in DOMAIN value.v : \A i \in DOMAIN shape :
         shape[i].key = key => Satisfies(value.v[key], shape[i].type)

(* C17: _validate_schema decides the shape. Whenever it has been applied to *)
(* a value and a schema, it has returned True exactly when the value is a   *)
(* dict, each of its keys is declared, each required key is present and     *)
(* each present key's value satisfies the declared type, and False          *)
(* otherwise; the value and the schema it was given are unchanged.          *)
ValidateDecidesShape ==
    pc = "validated"
    => /\ outcome = Return(PyBool(Conforms(kwargs.obj, SchemaOf(kwargs.schema))))
       /\ kwargs \in [obj : ValidateObjs, schema : Schemas]

\* A response object with a nested error object has been validated against
\* the response schema and accepted.
NestedErrorAccepted ==
    /\ pc = "validated"
    /\ kwargs.schema = "response"
    /\ kwargs.obj.t = "dict"
    /\ outcome = Return(PyBool(TRUE))
    /\ "error" \in DOMAIN kwargs.obj.v
    /\ kwargs.obj.v["error"].t = "dict"
    /\ "data" \in DOMAIN kwargs.obj.v["error"].v

----------------------------------------------------------------------------
(* C18: each named capability is invoked once. Whenever resolve has ended,  *)
(* the capabilities it invoked are exactly those of the request, or of the  *)
(* members of the batch, that passed the shape and name a registered        *)
(* method, each once with its own params: none for a parse-failed or        *)
(* shape-invalid request or an absent method, one for any other request or  *)
(* notification.                                                            *)
EachNamedCapabilityInvokedOnce ==
    Resolved
    => LET members == Members(request)
           named == Indices(members, LAMBDA m : IsValid(m) /\ Registered(m))
       IN  calls = [k \in DOMAIN named |->
                      [method |-> members[named[k]].method.v,
                       params |-> members[named[k]].params]]

----------------------------------------------------------------------------
\* The six kinds of the error taxonomy.
TaxonomyKinds ==
    {"ParseError", "InvalidRequestError", "MethodNotFoundError", "InvalidParamsError",
     "InternalError", "ServerError"}

(* C19: reading a loaded Response. Whenever result() has been called on a   *)
(* Response loaded from a wire object: if the Response is a success the     *)
(* stored result is returned, and if it is a failure, whatever its integer  *)
(* code, one of the six JSON-RPC errors is raised, the one the error table  *)
(* assigns to the code when the table has the code.                         *)
ResultReturnsOrRaisesTaxonomy ==
    (pc = "read" /\ received.value.id # _BATCH)
    => /\ ~is_error(received.value) <=> outcome = Return(received.value._result)
       /\ is_error(received.value)
          => /\ outcome.kind = "raise"
             /\ outcome.exc.type \in TaxonomyKinds
             /\ (received.value.code.t = "int"
                 /\ received.value.code.v \in DOMAIN _err_types)
                => outcome.exc.type = _err_types[received.value.code.v]

============================================================================
